---- MODULE Spec2Model ----
(***************************************************************************)
(* Model of ia_santander.py: the extraction of the movements of a Banco    *)
(* Santander statement (parse_santander_pdf), the classification of each   *)
(* movement (_clasificar_movimiento), the tax summary                      *)
(* (construir_resumen_impositivo) and the balances (calcular_saldos).      *)
(*                                                                         *)
(* Texts are TLA+ strings, handled character by character with Len,        *)
(* SubSeq and \o.  Amounts are Python floats; the model keeps them as      *)
(* integers counted in hundredths, which is exact for the cell texts of    *)
(* the pools below (at most two decimals, no exponent, no inf/nan).        *)
(***************************************************************************)
EXTENDS Integers, Sequences, FiniteSets, TLC

(* ------------------------------------------------------------------ *)
(* Bounds of the model                                                  *)
(* ------------------------------------------------------------------ *)
\* tables on one page
MaxTables == 2
\* body rows of the tables of one document
MaxRows == 2
\* fragments joined into one description
MaxFragmentos == 3

(* ------------------------------------------------------------------ *)
(* Text helpers (Python str)                                            *)
(* ------------------------------------------------------------------ *)
None == "<None>"

Char(s, i) == SubSeq(s, i, i)

\* sub in s
Contains(s, sub) ==
    \E i \in 1..(Len(s) - Len(sub) + 1) : SubSeq(s, i, i + Len(sub) - 1) = sub

\* characters of the model's texts, in code point order
Alfabeto == " $%,-./0123456789ABCDEFGHIJKLMNOPQRSTUVWXYZabcdefghijklmnopqrstuvwxyzÉÓéó"

\* ord(c), as the rank of c in the alphabet
Ord(c) == CHOOSE i \in 1..Len(Alfabeto) : Char(Alfabeto, i) = c

Mayusculas == "ABCDEFGHIJKLMNOPQRSTUVWXYZÉÓ"
Minusculas == "abcdefghijklmnopqrstuvwxyzéó"

LowerChar(c) ==
    IF Contains(Mayusculas, c)
    THEN Char(Minusculas, CHOOSE i \in 1..Len(Mayusculas) : Char(Mayusculas, i) = c)
    ELSE c

RECURSIVE lower(_)
lower(s) == IF s = "" THEN "" ELSE LowerChar(Head(s)) \o lower(Tail(s))

\* the no-break space U+00A0
NBSP == " "

\* str.isspace() on the characters of the model
IsSpace(c) == c = " " \/ c = NBSP

RECURSIVE lstrip(_)
lstrip(s) == IF s # "" /\ IsSpace(Head(s)) THEN lstrip(Tail(s)) ELSE s

RECURSIVE rstrip(_)
rstrip(s) ==
    IF s # "" /\ IsSpace(Char(s, Len(s))) THEN rstrip(SubSeq(s, 1, Len(s) - 1)) ELSE s

strip(s) == rstrip(lstrip(s))

\* s.replace(c, r) for a one-character c
RECURSIVE replace(_, _, _)
replace(s, c, r) ==
    IF s = "" THEN ""
    ELSE (IF Head(s) = c THEN r ELSE Head(s)) \o replace(Tail(s), c, r)

\* a < b for str (lexicographic, by code point)
RECURSIVE StrLess(_, _)
StrLess(a, b) ==
    IF b = "" THEN FALSE
    ELSE IF a = "" THEN TRUE
    ELSE IF Head(a) = Head(b) THEN StrLess(Tail(a), Tail(b))
    ELSE Ord(Head(a)) < Ord(Head(b))

\* " ".join(cells)
RECURSIVE Join(_)
Join(cells) ==
    IF cells = <<>> THEN ""
    ELSE IF Len(cells) = 1 THEN cells[1]
    ELSE cells[1] \o " " \o Join(Tail(cells))

\* (c or "").strip()
CellText(c) == IF c = None THEN "" ELSE strip(c)

IsDigit(c) == Contains("0123456789", c)

DigitVal(c) == (CHOOSE i \in 1..10 : Char("0123456789", i) = c) - 1

RECURSIVE IntOf(_)
IntOf(s) == IF s = "" THEN 0 ELSE IntOf(SubSeq(s, 1, Len(s) - 1)) * 10 + DigitVal(Char(s, Len(s)))

AllDigits(s) == \A i \in 1..Len(s) : IsDigit(Char(s, i))

(* ------------------------------------------------------------------ *)
(* _parse_amount                                                        *)
(* ------------------------------------------------------------------ *)
\* position of the first "." of s, or 0
DotPos(s) ==
    IF Contains(s, ".") THEN CHOOSE i \in 1..Len(s) :
                                /\ Char(s, i) = "."
                                /\ \A j \in 1..(i - 1) : Char(s, j) # "."
    ELSE 0

\* an unsigned decimal literal float() accepts: digits, at most one ".",
\* at least one digit
IsDecimal(u) ==
    LET p == DotPos(u)
        ip == IF p = 0 THEN u ELSE SubSeq(u, 1, p - 1)
        fp == IF p = 0 THEN "" ELSE SubSeq(u, p + 1, Len(u))
    IN  AllDigits(ip) /\ AllDigits(fp) /\ Len(ip) + Len(fp) > 0

\* value of an unsigned decimal literal, in hundredths
DecimalValue(u) ==
    LET p == DotPos(u)
        ip == IF p = 0 THEN u ELSE SubSeq(u, 1, p - 1)
        fp == IF p = 0 THEN "" ELSE SubSeq(u, p + 1, Len(u))
        f2 == SubSeq(fp \o "00", 1, 2)
    IN  IntOf(ip) * 100 + IntOf(f2)

HasSign(s) == s # "" /\ (Head(s) = "-" \/ Head(s) = "+")

\* float(s) succeeds
FloatOk(s) == IsDecimal(IF HasSign(s) THEN Tail(s) ELSE s)

\* float(s), in hundredths
Float(s) ==
    IF HasSign(s)
    THEN (IF Head(s) = "-" THEN 0 - DecimalValue(Tail(s)) ELSE DecimalValue(Tail(s)))
    ELSE DecimalValue(s)

_parse_amount(text) ==
    IF text = None THEN 0
    ELSE LET s == strip(text) IN
         IF s = "" \/ s = "-" THEN 0
         ELSE LET s1 == replace(replace(replace(s, "$", ""), NBSP, " "), " ", "")
                  s2 == replace(replace(s1, ".", ""), ",", ".")
              IN  IF FloatOk(s2) THEN Float(s2) ELSE 0

(* ------------------------------------------------------------------ *)
(* _clasificar_movimiento                                               *)
(* ------------------------------------------------------------------ *)
\* variant: the test of the law alone comes before its two qualifiers
_clasificar_movimiento_BareFirst(desc) ==
    LET d == lower(IF desc = None THEN "" ELSE desc) IN
    IF Contains(d, "impuesto ley 25.413") \/ Contains(d, "impuesto ley 25413")
    THEN "IMP. LEY 25.413"
    ELSE IF Contains(d, "sircreb") THEN "SIRCREB"
    ELSE IF Contains(d, "iva 21") \/ Contains(d, "iva 21% reg") THEN "IVA 21%"
    ELSE IF Contains(d, "iva percepcion") \/ Contains(d, "iva percepción")
         THEN "IVA PERCEPCIÓN"
    ELSE IF Contains(d, "comision por servicio de cuenta") THEN "COMISIÓN CUENTA"
    ELSE IF Contains(d, "pago haberes") THEN "PAGO HABERES"
    ELSE IF Contains(d, "deposito de efectivo") \/ Contains(d, "deposito efvo")
         THEN "DEPÓSITO EFECTIVO"
    ELSE "OTROS"

_clasificar_movimiento(desc) ==
    LET d == lower(IF desc = None THEN "" ELSE desc) IN
    IF Contains(d, "impuesto ley 25.413") \/ Contains(d, "impuesto ley 25413")
    THEN IF Contains(d, "debito") THEN "IMP. LEY 25.413 - DÉBITOS"
         ELSE IF Contains(d, "credito") THEN "IMP. LEY 25.413 - CRÉDITOS"
         ELSE "IMP. LEY 25.413"
    ELSE IF Contains(d, "sircreb") THEN "SIRCREB"
    ELSE IF Contains(d, "iva 21") \/ Contains(d, "iva 21% reg") THEN "IVA 21%"
    ELSE IF Contains(d, "iva percepcion") \/ Contains(d, "iva percepción")
         THEN "IVA PERCEPCIÓN"
    ELSE IF Contains(d, "comision por servicio de cuenta") THEN "COMISIÓN CUENTA"
    ELSE IF Contains(d, "pago haberes") THEN "PAGO HABERES"
    ELSE IF Contains(d, "deposito de efectivo") \/ Contains(d, "deposito efvo")
         THEN "DEPÓSITO EFECTIVO"
    ELSE "OTROS"

(* ------------------------------------------------------------------ *)
(* Dates                                                                *)
(* ------------------------------------------------------------------ *)
\* variant: the pattern has to match the whole text
MatchFecha_Whole(s) ==
    /\ Len(s) = 8
    /\ \A i \in {1, 2, 4, 5, 7, 8} : IsDigit(Char(s, i))
    /\ Char(s, 3) = "/"
    /\ Char(s, 6) = "/"

\* re.match(r"\d{2}/\d{2}/\d{2}", s): the pattern is anchored at the start only
MatchFecha(s) ==
    /\ Len(s) >= 8
    /\ \A i \in {1, 2, 4, 5, 7, 8} : IsDigit(Char(s, i))
    /\ Char(s, 3) = "/"
    /\ Char(s, 6) = "/"

\* pandas NaT, the result of errors="coerce"
NaT == -1

IsLeap(y) == (y % 4 = 0 /\ y % 100 # 0) \/ y % 400 = 0

DaysInMonth(y, m) ==
    IF m = 2 THEN (IF IsLeap(y) THEN 29 ELSE 28)
    ELSE IF m \in {4, 6, 9, 11} THEN 30 ELSE 31

\* pd.to_datetime(s, format="%d/%m/%y", errors="coerce") as the number
\* yyyymmdd, or NaT; the format has to match the whole string
to_datetime(s) ==
    IF Len(s) = 8 /\ MatchFecha(s)
    THEN LET dd == IntOf(SubSeq(s, 1, 2))
             mm == IntOf(SubSeq(s, 4, 5))
             yy == IntOf(SubSeq(s, 7, 8))
             y  == IF yy < 69 THEN 2000 + yy ELSE 1900 + yy
         IN  IF mm \in 1..12 /\ dd >= 1 /\ dd <= DaysInMonth(y, mm)
             THEN y * 10000 + mm * 100 + dd
             ELSE NaT
    ELSE NaT

(* ------------------------------------------------------------------ *)
(* Rows of parse_santander_pdf                                          *)
(* ------------------------------------------------------------------ *)
Abs(n) == IF n < 0 THEN 0 - n ELSE n

\* not raw_row or not any(raw_row)
RowBlank(raw_row) ==
    raw_row = <<>> \/ \A k \in 1..Len(raw_row) : raw_row[k] = None \/ raw_row[k] = ""

\* cells of the row, stripped and padded to at least six columns
Cells(raw_row) ==
    LET cells == [k \in 1..Len(raw_row) |-> CellText(raw_row[k])] IN
    IF Len(cells) < 6 THEN cells \o [k \in 1..(6 - Len(cells)) |-> ""] ELSE cells

\* type and signed amount from the parsed debit and credit
Tipo(deb, cred) ==
    IF Abs(deb) > 0 THEN "DEBITO" ELSE IF Abs(cred) > 0 THEN "CREDITO" ELSE ""

ImporteRaw(deb, cred) ==
    IF Abs(deb) > 0 THEN deb ELSE IF Abs(cred) > 0 THEN cred ELSE 0

Importe(deb, cred) ==
    IF Abs(deb) > 0 THEN 0 - deb ELSE IF Abs(cred) > 0 THEN cred ELSE 0

\* the dict appended to rows for an accepted row
RowDict(cells) ==
    LET deb  == _parse_amount(cells[4])
        cred == _parse_amount(cells[5])
    IN  [fecha_str   |-> cells[1],
         comprobante |-> cells[2],
         movimiento  |-> cells[3],
         debito      |-> deb,
         credito     |-> cred,
         saldo       |-> _parse_amount(cells[6]),
         tipo        |-> Tipo(deb, cred),
         importe     |-> Importe(deb, cred),
         importe_raw |-> ImporteRaw(deb, cred)]

\* variant: one of the two markers is enough
HeaderOk_Either(table0) ==
    LET header == [k \in 1..Len(table0) |-> lower(CellText(table0[k]))]
        header_join == Join(header)
    IN  Contains(header_join, "fecha") \/ Contains(header_join, "saldo")

\* the table is the one of movements
HeaderOk(table0) ==
    LET header == [k \in 1..Len(table0) |-> lower(CellText(table0[k]))]
        header_join == Join(header)
    IN  Contains(header_join, "fecha") /\ Contains(header_join, "saldo")

\* a row of the frame, with the columns fecha and categoria added
WithColumns(r) ==
    [fecha       |-> to_datetime(r.fecha_str),
     fecha_str   |-> r.fecha_str,
     comprobante |-> r.comprobante,
     movimiento  |-> r.movimiento,
     categoria   |-> _clasificar_movimiento(r.movimiento),
     tipo        |-> r.tipo,
     debito      |-> r.debito,
     credito     |-> r.credito,
     importe     |-> r.importe,
     importe_raw |-> r.importe_raw,
     saldo       |-> r.saldo]

\* pd.DataFrame(rows) with the two columns added, row by row
RECURSIVE Frame(_)
Frame(rs) == IF rs = <<>> THEN <<>> ELSE <<WithColumns(Head(rs))>> \o Frame(Tail(rs))

(* ------------------------------------------------------------------ *)
(* sort_values(["fecha", "comprobante"], ignore_index=True)             *)
(* ------------------------------------------------------------------ *)
\* variant: NaT before every date (na_position="first")
FechaLess_NaTFirst(a, b) == b # NaT /\ (a = NaT \/ a < b)

\* order of the column fecha: ascending, NaT after every date (na_position="last")
FechaLess(a, b) == a # NaT /\ (b = NaT \/ a < b)

KeyLess(r1, r2) ==
    \/ FechaLess(r1.fecha, r2.fecha)
    \/ r1.fecha = r2.fecha /\ StrLess(r1.comprobante, r2.comprobante)

\* variant: k placed before the rows of equal key (a sort that is not stable)
RECURSIVE InsertSorted_Unstable(_, _, _)
InsertSorted_Unstable(ord, k, frame) ==
    IF ord = <<>> THEN <<k>>
    ELSE IF KeyLess(frame[Head(ord)], frame[k])
         THEN <<Head(ord)>> \o InsertSorted_Unstable(Tail(ord), k, frame)
         ELSE <<k>> \o ord

\* k placed in the sorted index list ord, after the rows that are not greater
RECURSIVE InsertSorted(_, _, _)
InsertSorted(ord, k, frame) ==
    IF ord = <<>> THEN <<k>>
    ELSE IF KeyLess(frame[k], frame[Head(ord)]) THEN <<k>> \o ord
    ELSE <<Head(ord)>> \o InsertSorted(Tail(ord), k, frame)

\* the rows of the frame taken in the order ord
RECURSIVE Take(_, _)
Take(frame, ord) ==
    IF ord = <<>> THEN <<>> ELSE <<frame[Head(ord)]>> \o Take(frame, Tail(ord))

\* the sorted order of the labels 1..n of the frame (a stable sort)
RECURSIVE SortIndexer(_, _)
SortIndexer(frame, n) ==
    IF n = 0 THEN <<>> ELSE InsertSorted(SortIndexer(frame, n - 1), n, frame)

(* ------------------------------------------------------------------ *)
(* Inputs: the grids the document reader yields                         *)
(* ------------------------------------------------------------------ *)
Headers ==
    { <<"Fecha", "Comprobante", "Movimiento", "Débito", "Crédito", "Saldo">>,
      <<" FECHA ", None, "SALDO EN $">>,
      <<"Fecha", "Concepto", "Importe">>,
      <<"Concepto", "Saldo">> }

\* The body rows of a document come from one of three families, so that
\* each kind of cell text is combined with the others of its kind.
Familias == {"importes", "fechas", "categorias"}

\* debit and credit cells: absent, one side, both sides, negative, not a number
RowsImportes ==
    { <<"01/03/24", "A", "Saldo Inicial", "x", "-", "1.000,00">>,
      <<"01/03/24", "A", "Pago Haberes", "10,00", "", "990,00">>,
      <<"01/03/24", "A", "Deposito Efvo", None, "5,00", "995,00">>,
      <<"01/03/24", "B", "Pago Haberes", "-5,00", "", "$ 1.234,56">>,
      <<"01/03/24", "B", "Transferencia", "10,00", "5,00", "1,2,3">>,
      <<"01/03/24", "B", "Transferencia", " ", "-5,00", "0,50" \o NBSP>> }

\* date cells: two rows of equal key, a day that does not exist, a date with
\* a suffix, a ragged row, a year of the last century, no date, a blank row
RowsFechas ==
    { <<"01/03/24", "A", "Compra", "10,00", "", "990,00">>,
      <<"01/03/24", "A", "Venta", "", "5,00", "995,00">>,
      <<"31/02/99", "A", "Compra", "10,00", "", "980,00">>,
      <<"31/02/99foo", "B", "Venta", "", "5,00", "985,00">>,
      <<"01/03/24">>,
      <<" 15/01/99 ", "B", "Saldo Inicial", "", "", "1.000,00", "extra">>,
      <<"", "A", "Total", "10,00", "5,00", "1,00">>,
      <<None, "", None>> }

\* descriptions of every category
RowsCategorias ==
    { <<"02/03/24", "B", "Saldo Inicial", "", "", "1.000,00">>,
      <<"01/03/24", "A", "IMPUESTO LEY 25.413 DEBITO", "10,00", "", "990,00">>,
      <<"01/03/24", "A", "impuesto ley 25413 credito", "", "5,00", "995,00">>,
      <<"03/03/24", "A", "Impuesto Ley 25.413", "2,50", "", "992,50">>,
      <<"01/03/24", "C", "SIRCREB", "1,00", "", "991,50">>,
      <<"02/03/24", "A", "IVA 21% REG", "0,21", "", "991,29">>,
      <<"03/03/24", "B", "Iva Percepción", "0,03", "", "991,26">>,
      <<"01/03/24", "B", "Comision por servicio de cuenta", "100,00", "", "891,26">>,
      <<"01/03/24", "B", "PAGO HABERES (saldo INICIAL)", "50,00", "", "841,26">>,
      <<"03/03/24", "C", "DEPOSITO DE EFECTIVO", "", "500,00", "1.341,26">> }

RawRows(f) ==
    IF f = "importes" THEN RowsImportes
    ELSE IF f = "fechas" THEN RowsFechas
    ELSE RowsCategorias

(* ------------------------------------------------------------------ *)
(* construir_resumen_impositivo and calcular_saldos                     *)
(* ------------------------------------------------------------------ *)
\* variant: the law alone listed before its two qualifiers
categorias_interes_BareFirst ==
    << "IMP. LEY 25.413",
       "IMP. LEY 25.413 - DÉBITOS",
       "IMP. LEY 25.413 - CRÉDITOS",
       "SIRCREB",
       "IVA 21%",
       "IVA PERCEPCIÓN",
       "COMISIÓN CUENTA" >>

categorias_interes ==
    << "IMP. LEY 25.413 - DÉBITOS",
       "IMP. LEY 25.413 - CRÉDITOS",
       "IMP. LEY 25.413",
       "SIRCREB",
       "IVA 21%",
       "IVA PERCEPCIÓN",
       "COMISIÓN CUENTA" >>

Range(f) == {f[k] : k \in DOMAIN f}

\* variant: the signed column importe is summed
RECURSIVE SumaCategoria_Signed(_, _)
SumaCategoria_Signed(frame, c) ==
    IF frame = <<>> THEN 0
    ELSE (IF Head(frame).categoria = c THEN Head(frame).importe ELSE 0)
         + SumaCategoria_Signed(Tail(frame), c)

\* sum of importe_raw over the rows of frame whose categoria is c
RECURSIVE SumaCategoria(_, _)
SumaCategoria(frame, c) ==
    IF frame = <<>> THEN 0
    ELSE (IF Head(frame).categoria = c THEN Head(frame).importe_raw ELSE 0)
         + SumaCategoria(Tail(frame), c)

\* the groups ordered by their position in categorias_interes
RECURSIVE Agrupar(_, _)
Agrupar(df_imp, cats) ==
    IF cats = <<>> THEN <<>>
    ELSE (IF \E k \in DOMAIN df_imp : df_imp[k].categoria = Head(cats)
          THEN << [Concepto |-> Head(cats),
                   Importe  |-> SumaCategoria(df_imp, Head(cats))] >>
          ELSE <<>>)
         \o Agrupar(df_imp, Tail(cats))

construir_resumen_impositivo(frame) ==
    IF frame = <<>> THEN <<>>
    ELSE LET EnInteres(r) == r.categoria \in Range(categorias_interes)
             df_imp == SelectSeq(frame, EnInteres)
         IN  IF df_imp = <<>> THEN <<>> ELSE Agrupar(df_imp, categorias_interes)

\* str.contains("saldo inicial", case=False, na=False)
MaskSaldoInicial(r) == Contains(lower(r.movimiento), "saldo inicial")

\* variant: the opening balance is always the first saldo
calcular_saldos_FirstRow(frame) ==
    IF frame = <<>> THEN <<0, 0>>
    ELSE <<frame[1].saldo, frame[Len(frame)].saldo>>

calcular_saldos(frame) ==
    IF frame = <<>> THEN <<0, 0>>
    ELSE LET con_si == SelectSeq(frame, MaskSaldoInicial)
             saldo_inicial == IF con_si # <<>> THEN con_si[1].saldo ELSE frame[1].saldo
             saldo_final == frame[Len(frame)].saldo
         IN  <<saldo_inicial, saldo_final>>

(* ------------------------------------------------------------------ *)
(* State                                                                *)
(* ------------------------------------------------------------------ *)
VARIABLES
    familia,     \* the family of the document's body rows
    pc,          \* "pages", "tables", "rows": position in the loops of
                 \* parse_santander_pdf; "ledger": it has returned
    tablas_pend, \* tables of the current page not yet visited
    leidas,      \* body rows of the tables visited so far
    table0,      \* table[0] of the current table, <<>> for a grid without rows
    len_table,   \* len(table)
    i,           \* rows of table[1:] already visited
    raw_row,     \* the row visited last
    rows,        \* the list rows
    orden,       \* the labels of the frame in sorted order
    df,          \* the DataFrame returned
    saldos,      \* result of calcular_saldos(df), <<>> before the call
    resumen,     \* result of construir_resumen_impositivo(df)
    llamadas,    \* which of the two functions were called on df
    desc,        \* argument of a call of _clasificar_movimiento on its own
    categoria    \* its result, "" before the call

vars == <<familia, pc, tablas_pend, leidas, table0, len_table, i, raw_row,
          rows, orden, df, saldos, resumen, llamadas, desc, categoria>>

Init ==
    /\ familia \in Familias
    /\ pc = "pages"
    /\ tablas_pend = 0
    /\ leidas = 0
    /\ table0 = <<>>
    /\ len_table = 0
    /\ i = 0
    /\ raw_row = <<>>
    /\ rows = <<>>
    /\ orden = <<>>
    /\ df = <<>>
    /\ saldos = <<>>
    /\ resumen = <<>>
    /\ llamadas = {}
    /\ desc = None
    /\ categoria = ""

\* for page in pdf.pages: tables = page.extract_tables(); a page without
\* tables is passed over
AbrirPagina ==
    /\ pc = "pages"
    /\ \E n \in 0..MaxTables :
          /\ tablas_pend' = n
          /\ pc' = IF n = 0 THEN "pages" ELSE "tables"
    /\ UNCHANGED <<familia, leidas, table0, len_table, i, raw_row, rows, orden,
                   df, saldos, resumen, llamadas,
                   desc, categoria>>

\* for table in tables: a table without rows or with its header alone is
\* passed over, and so is one whose header fails the test; the rows of a
\* table passed over are never read
AbrirTabla ==
    /\ pc = "tables"
    /\ \/ /\ table0' = <<>>
          /\ len_table' = 0
          /\ leidas' = leidas
          /\ pc' = IF tablas_pend = 1 THEN "pages" ELSE "tables"
       \/ \E h \in Headers, n \in 0..(MaxRows - leidas) :
             /\ table0' = h
             /\ len_table' = n + 1
             /\ leidas' = leidas + n
             /\ pc' = IF n + 1 >= 2 /\ HeaderOk(h) THEN "rows"
                      ELSE IF tablas_pend = 1 THEN "pages" ELSE "tables"
    /\ i' = 0
    /\ tablas_pend' = tablas_pend - 1
    /\ UNCHANGED <<familia, raw_row, rows, orden, df, saldos, resumen, llamadas,
                   desc, categoria>>

\* for raw_row in table[1:]
ProcesarFila ==
    /\ pc = "rows"
    /\ \E r \in RawRows(familia) :
          /\ raw_row' = r
          /\ rows' = IF RowBlank(r) \/ ~MatchFecha(Cells(r)[1])
                     THEN rows
                     ELSE Append(rows, RowDict(Cells(r)))
    /\ i' = i + 1
    /\ pc' = IF i + 1 < len_table - 1 THEN "rows"
             ELSE IF tablas_pend = 0 THEN "pages" ELSE "tables"
    /\ UNCHANGED <<familia, tablas_pend, leidas, table0, len_table, orden, df,
                   saldos, resumen, llamadas,
                   desc, categoria>>

\* after the loops: the frame, its columns fecha and categoria, the sort;
\* the variables of the loops go out of scope
ConstruirFrame ==
    /\ pc = "pages"
    /\ LET frame == Frame(rows)
           ord == SortIndexer(frame, Len(frame))
       IN  /\ orden' = ord
           /\ df' = Take(frame, ord)
    /\ pc' = "ledger"
    /\ tablas_pend' = 0
    /\ leidas' = 0
    /\ table0' = <<>>
    /\ len_table' = 0
    /\ i' = 0
    /\ raw_row' = <<>>
    /\ UNCHANGED <<familia, rows, saldos, resumen, llamadas,
                   desc, categoria>>

CalcularSaldos ==
    /\ pc = "ledger"
    /\ "saldos" \notin llamadas
    /\ saldos' = calcular_saldos(df)
    /\ llamadas' = llamadas \cup {"saldos"}
    /\ UNCHANGED <<familia, pc, tablas_pend, leidas, table0, len_table, i,
                   raw_row, rows, orden, df, resumen,
                   desc, categoria>>

ConstruirResumen ==
    /\ pc = "ledger"
    /\ "resumen" \notin llamadas
    /\ resumen' = construir_resumen_impositivo(df)
    /\ llamadas' = llamadas \cup {"resumen"}
    /\ UNCHANGED <<familia, pc, tablas_pend, leidas, table0, len_table, i,
                   raw_row, rows, orden, df, saldos,
                   desc, categoria>>

Next ==
    \/ AbrirPagina
    \/ AbrirTabla
    \/ ProcesarFila
    \/ ConstruirFrame
    \/ CalcularSaldos
    \/ ConstruirResumen

Spec == Init /\ [][Next]_vars

(* ------------------------------------------------------------------ *)
(* _clasificar_movimiento called on its own                             *)
(* ------------------------------------------------------------------ *)
Fragmentos ==
    { "IMPUESTO LEY 25.413", "impuesto ley 25413", "Debito", "CREDITO",
      "Sircreb", "IVA 21% REG", "Iva Percepción",
      "Comision por servicio de cuenta", "Pago Haberes", "deposito efvo",
      "Débitos varios" }

\* None, and the fragments joined by a space, at most MaxFragmentos of them
Descripciones ==
    { None } \cup
    { Join(fs) : fs \in UNION { [1..k -> Fragmentos] : k \in 0..MaxFragmentos } }

InitClasificar ==
    /\ familia = "categorias"
    /\ pc = "pages"
    /\ tablas_pend = 0
    /\ leidas = 0
    /\ table0 = <<>>
    /\ len_table = 0
    /\ i = 0
    /\ raw_row = <<>>
    /\ rows = <<>>
    /\ orden = <<>>
    /\ df = <<>>
    /\ saldos = <<>>
    /\ resumen = <<>>
    /\ llamadas = {}
    /\ desc \in Descripciones
    /\ categoria = ""

Clasificar ==
    /\ categoria = ""
    /\ categoria' = _clasificar_movimiento(desc)
    /\ UNCHANGED <<familia, pc, tablas_pend, leidas, table0, len_table, i,
                   raw_row, rows, orden, df, saldos, resumen, llamadas, desc>>

NextClasificar == Clasificar

SpecClasificar == InitClasificar /\ [][NextClasificar]_vars

(* ================================================================== *)
(* Properties                                                           *)
(* ================================================================== *)
Ledger == pc = "ledger"

\* C1: in every row of the ledger the signed amount importe agrees with
\* tipo (DEBITO: negative, CREDITO: positive, '': zero) and importe_raw is
\* never negative.
C1_SignoSegunTipo ==
    Ledger =>
        \A k \in 1..Len(df) :
            /\ df[k].tipo = "DEBITO" => df[k].importe < 0
            /\ df[k].tipo = "CREDITO" => df[k].importe > 0
            /\ df[k].tipo = "" => df[k].importe = 0
            /\ df[k].importe_raw >= 0

\* C2: in every row of the ledger debito and credito are not negative,
\* exactly one of them is nonzero when tipo is DEBITO or CREDITO, and both
\* are zero when tipo is ''.
C2_InvarianteTransaccion ==
    Ledger =>
        \A k \in 1..Len(df) :
            /\ df[k].debito >= 0
            /\ df[k].credito >= 0
            /\ df[k].tipo \in {"DEBITO", "CREDITO"} =>
                  (df[k].debito # 0) # (df[k].credito # 0)
            /\ df[k].tipo = "" => df[k].debito = 0 /\ df[k].credito = 0

\* date texts that pass the filter of the rows and are no calendar date
FechasSinCalendario == {"31/02/99", "31/02/99foo"}

\* every accepted row whose date text is no calendar date is in the ledger
\* with a null date
RetenidaConFechaNula ==
    /\ Len(df) = Len(rows)
    /\ \A k \in 1..Len(rows) :
          rows[k].fecha_str \in FechasSinCalendario =>
             \E j \in 1..Len(df) :
                /\ orden[j] = k
                /\ df[j].fecha_str = rows[k].fecha_str
                /\ df[j].fecha = NaT

\* C3 as stated: a row whose date text is no calendar date is kept with a
\* null date, and every row of null date comes before every row with a date.
C3_NulasPrimero ==
    Ledger =>
        /\ RetenidaConFechaNula
        /\ \A a, b \in 1..Len(df) :
              df[a].fecha = NaT /\ df[b].fecha # NaT => a < b

\* C3 amended: a row whose date text is no calendar date is kept with a
\* null date, and every row of null date comes after every row with a date.
C3_NulasAlFinal ==
    Ledger =>
        /\ RetenidaConFechaNula
        /\ \A a, b \in 1..Len(df) :
              df[a].fecha = NaT /\ df[b].fecha # NaT => b < a

C3_Witness ==
    /\ Ledger
    /\ \E a, b \in 1..Len(df) :
          /\ df[a].fecha = NaT
          /\ df[a].fecha_str = "31/02/99"
          /\ df[b].fecha # NaT
          /\ orden[a] < orden[b]

RowFields ==
    {"fecha_str", "comprobante", "movimiento", "debito", "credito", "saldo",
     "tipo", "importe", "importe_raw"}

SameKey(r1, r2) == r1.fecha = r2.fecha /\ r1.comprobante = r2.comprobante

KeyLeq(r1, r2) ==
    \/ r1.fecha < r2.fecha
    \/ r1.fecha = r2.fecha /\ ~StrLess(r2.comprobante, r1.comprobante)

\* C4: the ledger is a permutation of the accepted rows, in non-decreasing
\* order of (fecha, comprobante), and two rows of equal (fecha, comprobante)
\* keep their order of the document.
C4_OrdenEstable ==
    Ledger =>
        /\ Len(df) = Len(rows)
        /\ Len(orden) = Len(rows)
        /\ {orden[k] : k \in 1..Len(orden)} = 1..Len(rows)
        /\ \A k \in 1..Len(df) : \A f \in RowFields : df[k][f] = rows[orden[k]][f]
        /\ \A a, b \in 1..Len(df) :
              a < b =>
                 /\ (df[a].fecha = NaT) = (df[b].fecha = NaT) => KeyLeq(df[a], df[b])
                 /\ SameKey(df[a], df[b]) => orden[a] < orden[b]

C4_Witness ==
    /\ Ledger
    /\ Len(df) >= 2
    /\ SameKey(df[1], df[2])
    /\ df[1].movimiento = "Venta"
    /\ df[2].movimiento = "Compra"

\* the date field of a raw row
FechaCell(r) == IF r = <<>> THEN "" ELSE CellText(r[1])

\* two digits, slash, two digits, slash, two digits
EsDDMMYY(s) ==
    /\ Len(s) = 8
    /\ \A k \in {1, 2, 4, 5, 7, 8} : IsDigit(Char(s, k))
    /\ Char(s, 3) = "/"
    /\ Char(s, 6) = "/"

\* a DD/MM/YY prefix followed by more characters
EsDDMMYYConResto(s) == Len(s) > 8 /\ EsDDMMYY(SubSeq(s, 1, 8))

\* the row read in this step was appended to rows, its missing cells empty
\* and their amounts zero
FilaIncluida ==
    /\ Len(rows') = Len(rows) + 1
    /\ SubSeq(rows', 1, Len(rows)) = rows
    /\ LET r == rows'[Len(rows')] IN
          /\ r.fecha_str = FechaCell(raw_row')
          /\ Len(raw_row') < 2 => r.comprobante = ""
          /\ Len(raw_row') < 3 => r.movimiento = ""
          /\ Len(raw_row') < 4 => r.debito = 0
          /\ Len(raw_row') < 5 => r.credito = 0
          /\ Len(raw_row') < 6 => r.saldo = 0

\* C5 as stated: in a qualifying table a row whose date cell is empty or is
\* a DD/MM/YY prefix followed by more characters is excluded, and a row
\* whose date cell is "01/03/24" is included even with fewer than six cells.
C5_FiltroFecha ==
    [][pc = "rows" =>
          /\ FechaCell(raw_row') = "" => rows' = rows
          /\ EsDDMMYYConResto(FechaCell(raw_row')) => rows' = rows
          /\ FechaCell(raw_row') = "01/03/24" => FilaIncluida]_vars

\* C5 amended: a row whose date cell is empty is excluded; a row whose date
\* cell is a DD/MM/YY prefix followed by more characters is included; a row
\* whose date cell is "01/03/24" is included even with fewer than six cells.
C5_FiltroFechaPrefijo ==
    [][pc = "rows" =>
          /\ FechaCell(raw_row') = "" => rows' = rows
          /\ EsDDMMYYConResto(FechaCell(raw_row')) => FilaIncluida
          /\ FechaCell(raw_row') = "01/03/24" => FilaIncluida]_vars

C5_Witness ==
    /\ raw_row # <<>>
    /\ FechaCell(raw_row) = "31/02/99foo"
    /\ rows # <<>>
    /\ rows[Len(rows)].fecha_str = "31/02/99foo"

\* the lower-cased text of the first row, joined
TextoCabecera(h) == Join([k \in 1..Len(h) |-> lower(CellText(h[k]))])

ConFechaYSaldo(h) ==
    LET t == TextoCabecera(h) IN Contains(t, "fecha") /\ Contains(t, "saldo")

\* C6: rows are visited only in a table whose header holds both markers,
\* and rows grows only when a row is visited; the step that opens a table
\* or passes it over leaves rows as it was, whatever the body of the table.
C6_SoloTablasConCabecera ==
    /\ [](pc = "rows" => table0 # <<>> /\ ConFechaYSaldo(table0))
    /\ [][/\ rows' # rows => pc = "rows"
          /\ pc = "tables" => rows' = rows
          /\ Len(rows') >= Len(rows) /\ SubSeq(rows', 1, Len(rows)) = rows]_vars

C6_Witness ==
    /\ rows # <<>>
    /\ table0 # <<>>
    /\ len_table >= 2
    /\ Contains(TextoCabecera(table0), "fecha")
    /\ ~Contains(TextoCabecera(table0), "saldo")
    /\ pc \in {"pages", "tables"}

Clasificada == categoria # ""

TodasLasCategorias ==
    { "IMP. LEY 25.413 - DÉBITOS", "IMP. LEY 25.413 - CRÉDITOS",
      "IMP. LEY 25.413", "SIRCREB", "IVA 21%", "IVA PERCEPCIÓN",
      "COMISIÓN CUENTA", "PAGO HABERES", "DEPÓSITO EFECTIVO", "OTROS" }

\* the description in lower case, "" for None
Texto == lower(IF desc = None THEN "" ELSE desc)

TieneLey(t) == Contains(t, "impuesto ley 25.413") \/ Contains(t, "impuesto ley 25413")

\* the rules after those of the law, in their order: markers and category
Reglas ==
    << [marcas |-> {"sircreb"}, cat |-> "SIRCREB"],
       [marcas |-> {"iva 21", "iva 21% reg"}, cat |-> "IVA 21%"],
       [marcas |-> {"iva percepcion", "iva percepción"}, cat |-> "IVA PERCEPCIÓN"],
       [marcas |-> {"comision por servicio de cuenta"}, cat |-> "COMISIÓN CUENTA"],
       [marcas |-> {"pago haberes"}, cat |-> "PAGO HABERES"],
       [marcas |-> {"deposito de efectivo", "deposito efvo"},
        cat |-> "DEPÓSITO EFECTIVO"] >>

Aplica(t, k) == \E m \in Reglas[k].marcas : Contains(t, m)

\* the category of the first rule that applies to the text t
PrimeraRegla(t) ==
    IF TieneLey(t)
    THEN IF Contains(t, "debito") THEN "IMP. LEY 25.413 - DÉBITOS"
         ELSE IF Contains(t, "credito") THEN "IMP. LEY 25.413 - CRÉDITOS"
         ELSE "IMP. LEY 25.413"
    ELSE IF \E k \in 1..Len(Reglas) : Aplica(t, k)
         THEN Reglas[CHOOSE k \in 1..Len(Reglas) :
                        Aplica(t, k) /\ \A j \in 1..(k - 1) : ~Aplica(t, j)].cat
         ELSE "OTROS"

\* C7: the classification is total and the first rule that matches wins:
\* the law with "debito" gives the debit variant, whatever else the text
\* holds; the law with "credito" alone gives the credit variant; None and
\* the empty text give OTROS.
C7_PrimeraReglaGana ==
    Clasificada =>
        LET t == Texto IN
        /\ categoria \in TodasLasCategorias
        /\ categoria = PrimeraRegla(t)
        /\ TieneLey(t) /\ Contains(t, "debito") =>
              categoria = "IMP. LEY 25.413 - DÉBITOS"
        /\ TieneLey(t) /\ ~Contains(t, "debito") /\ Contains(t, "credito") =>
              categoria = "IMP. LEY 25.413 - CRÉDITOS"
        /\ desc = None \/ desc = "" => categoria = "OTROS"

C7_Witness ==
    /\ Clasificada
    /\ TieneLey(Texto)
    /\ Contains(Texto, "debito")
    /\ Contains(Texto, "credito")
    /\ categoria = "IMP. LEY 25.413 - DÉBITOS"

ResumenHecho == "resumen" \in llamadas

CategoriasDeInteres ==
    { "IMP. LEY 25.413", "IMP. LEY 25.413 - DÉBITOS", "IMP. LEY 25.413 - CRÉDITOS",
      "SIRCREB", "IVA 21%", "IVA PERCEPCIÓN", "COMISIÓN CUENTA" }

\* sum of importe_raw over the first n rows of the ledger of category c
RECURSIVE SumaHasta(_, _)
SumaHasta(c, n) ==
    IF n = 0 THEN 0
    ELSE SumaHasta(c, n - 1) + (IF df[n].categoria = c THEN df[n].importe_raw ELSE 0)

\* C8: the summary has one entry for each category of interest that occurs
\* in the ledger and no other entry, and the Importe of an entry is the sum
\* of importe_raw over the rows of its category.
C8_ResumenPorCategoria ==
    ResumenHecho =>
        /\ \A c \in CategoriasDeInteres :
              Cardinality({k \in 1..Len(resumen) : resumen[k].Concepto = c})
                 = IF \E j \in 1..Len(df) : df[j].categoria = c THEN 1 ELSE 0
        /\ \A k \in 1..Len(resumen) :
              /\ resumen[k].Concepto \in CategoriasDeInteres
              /\ resumen[k].Importe = SumaHasta(resumen[k].Concepto, Len(df))

C8_Witness ==
    /\ ResumenHecho
    /\ Len(df) = 2
    /\ df[1].categoria = "IMP. LEY 25.413 - DÉBITOS"
    /\ df[2].categoria = "IMP. LEY 25.413 - DÉBITOS"
    /\ Len(resumen) = 1
    /\ resumen[1].Importe = 2000

\* position of c in the sequence cats
Pos(cats, c) == CHOOSE k \in 1..Len(cats) : cats[k] = c

EnOrden(cats) ==
    \A a, b \in 1..Len(resumen) :
        a < b => Pos(cats, resumen[a].Concepto) < Pos(cats, resumen[b].Concepto)

\* C9 as stated: the entries of the summary follow the order: the law
\* alone, its debit variant, its credit variant, SIRCREB, IVA 21%, IVA
\* PERCEPCIÓN, COMISIÓN CUENTA.
C9_OrdenDeclarado ==
    ResumenHecho =>
        EnOrden(<< "IMP. LEY 25.413", "IMP. LEY 25.413 - DÉBITOS",
                   "IMP. LEY 25.413 - CRÉDITOS", "SIRCREB", "IVA 21%",
                   "IVA PERCEPCIÓN", "COMISIÓN CUENTA" >>)

\* C9 amended: the entries of the summary follow the order: the debit
\* variant of the law, its credit variant, the law alone, SIRCREB, IVA 21%,
\* IVA PERCEPCIÓN, COMISIÓN CUENTA.
C9_OrdenDelCodigo ==
    ResumenHecho =>
        EnOrden(<< "IMP. LEY 25.413 - DÉBITOS", "IMP. LEY 25.413 - CRÉDITOS",
                   "IMP. LEY 25.413", "SIRCREB", "IVA 21%",
                   "IVA PERCEPCIÓN", "COMISIÓN CUENTA" >>)

C9_Witness ==
    /\ ResumenHecho
    /\ Len(resumen) = 2
    /\ resumen[1].Concepto = "IMP. LEY 25.413 - DÉBITOS"
    /\ resumen[2].Concepto = "IMP. LEY 25.413"

SaldosHecho == "saldos" \in llamadas

ConSaldoInicial(k) == Contains(lower(df[k].movimiento), "saldo inicial")

\* C10: the opening balance is the saldo of the first row of the ledger
\* whose movimiento holds "saldo inicial" in any case, or of the first row
\* when there is none; the closing balance is the saldo of the last row; an
\* empty ledger gives (0, 0); and neither function changes the ledger.
C10_Saldos ==
    /\ [](SaldosHecho =>
            IF df = <<>> THEN saldos = <<0, 0>>
            ELSE /\ saldos[2] = df[Len(df)].saldo
                 /\ \A k \in 1..Len(df) :
                       ConSaldoInicial(k) /\ (\A j \in 1..(k - 1) : ~ConSaldoInicial(j))
                          => saldos[1] = df[k].saldo
                 /\ (\A k \in 1..Len(df) : ~ConSaldoInicial(k))
                       => saldos[1] = df[1].saldo)
    /\ [][Ledger => df' = df]_vars

C10_Witness ==
    /\ SaldosHecho
    /\ ResumenHecho
    /\ Len(df) = 2
    /\ ~ConSaldoInicial(1)
    /\ ConSaldoInicial(2)
    /\ orden = <<2, 1>>
    /\ saldos = <<df[2].saldo, df[2].saldo>>

====
